---- MODULE Spec2Model ----
(***************************************************************************)
(* Ingestion-and-delivery pipeline of the HL7v2 file processor:            *)
(* FileProcessor (src/src/file_processor.py), send_hl7v2_message           *)
(* (src/src/hl7v2_handler.py) and AidboxClient.post                        *)
(* (src/src/aidbox_client.py), driven by the scheduler of src/main.py.     *)
(*                                                                         *)
(* Strings are sequences of one-character tokens, so that the record       *)
(* format filename|timestamp|status is written and parsed as the code     *)
(* does it.  The timestamp and the status are single tokens: strftime      *)
(* output and the two status words contain no '|'.                         *)
(***************************************************************************)
EXTENDS Integers, Sequences, FiniteSets, TLC

\* ------------------------------------------------------------------ bounds
\* most failed attempts a retry loop makes before the environment lets it
\* through (the loops themselves are unbounded)
MaxFail == 2
\* most unexpected exceptions one file's workflow meets
MaxRaise == 1
\* most lines the store file holds
MaxStore == 2
\* most entries the directory holds when a single scan is examined
MaxPresent == 3
\* most cycles the scheduler starts
MaxCycle == 3

\* --------------------------------------------------------- program constants
\* config.retry_delay_seconds
RETRY_DELAY_SECONDS == 5
\* send_hl7v2_message(max_retries=3)
max_retries == 3

\* ------------------------------------------------------------------- names
NameA == <<"a">>
NameB == <<"b">>
NamePipe == <<"a", "|", "b">>
NameAB == <<"a", "b">>
NameHidden == <<".", "h">>
\* os.path.basename(self.processed_files_path)
processed_files_filename == <<"p">>

Names == {NameA, NameB, NameAB, NamePipe, NameHidden,
          processed_files_filename}

\* kinds of directory entry: a readable regular file, a regular file whose
\* bytes are not valid UTF-8 (every read raises UnicodeDecodeError), a
\* subdirectory
Kinds == {"file", "undecodable", "dir"}

\* the kinds of entry that appear under each name
KindsOf(n) ==
    IF n \in {NameA, NamePipe} THEN {"file", "undecodable"}
    ELSE IF n = NameB THEN {"dir"}
    ELSE {"file"}

\* the names under which entries appear while the driver runs; the hidden
\* file and the subdirectory are there from the start, and the store file
\* lies in the watched directory itself
Arriving == {NameA, NamePipe}

\* the code point of a character (Python compares strings by code point)
ord(c) ==
    CASE c = " " -> 32
      [] c = "." -> 46
      [] c = "a" -> 97
      [] c = "b" -> 98
      [] c = "p" -> 112
      [] c = "|" -> 124
      [] OTHER -> 0

\* the watched directory
directory_path == <<"files">>

\* os.path.join(target_directory, name)
join(dir, name) == <<dir, name>>

\* os.path.basename(path)
basename(path) == path[Len(path)]

\* the HTTP status of an exchange that produced no response, and the
\* response_data of a POST that failed
None == 0

\* ------------------------------------------------------------------- state
VARIABLES
    dirEntries,      \* the watched directory: name -> kind or "none"
    store,           \* the processed-files tracking file
    pc,              \* where the driver is
    new_files,       \* process_new_files: the scan result being processed
    idx,             \* process_new_files: position of the for loop
    processed_count, \* process_new_files: processed_count
    content,         \* _process_single_file_with_retry: content
    attempt,         \* send_hl7v2_message: attempt of the for loop
    retry_count,     \* retry_count of the three endless loops
    result,          \* (success, response_data) of the last send
    send_calls,      \* calls of send_hl7v2_message by the running send loop
    log_errors,      \* log_error calls made by each function in its running
                     \* or just finished call
    slept,           \* time.sleep calls made by each function in its running
                     \* or just finished call
    loadStatus,      \* how the last _load_processed_files ended
    processed_files, \* get_new_files: the set the last load returned
    returned,        \* what the last process_new_files returned
    mark_returned,   \* what the last mark_file_as_processed of the batch
                     \* returned
    open_handles,    \* open file objects on the store file
    drivers,         \* driver instances that run side by side on the
                     \* directory and the store: id -> where the driver is,
                     \* its scan result, its loop position, the set its
                     \* scan loaded, the result of its last send, the
                     \* files it has sent; empty when one driver runs
    app,             \* the application around the driver (main.py): where
                     \* main and run_scheduler are, what config.validate
                     \* gave, the cycle counter, the calls of the job and
                     \* of time.sleep made so far with how each ended, the
                     \* error reports of main and run_scheduler, the
                     \* status of sys.exit; <<>> when only the driver is
                     \* examined
    posts,           \* the calls of AidboxClient.post examined on their
                     \* own: the exchange each met and the triple it
                     \* returned; <<>> when the driver is examined
    exchanges,       \* the HTTP exchanges the POSTs of a call of
                     \* send_hl7v2_message will meet, in order; <<>> when
                     \* every POST can meet any exchange
    verdicts         \* history: POSTs for the file in hand that were
                     \* answered with a JSON object (a processing verdict)

vars == <<dirEntries, store, pc, new_files, idx, processed_count, content,
          attempt, retry_count, result, send_calls, log_errors, slept,
          loadStatus, processed_files, returned, mark_returned,
          exchanges, open_handles, drivers, app, posts, verdicts>>

Functions == {"get_new_files", "_load_processed_files", "read_file_content",
              "_send_message_with_retry", "send_hl7v2_message",
              "_process_single_file_with_retry", "mark_file_as_processed"}

NoResult == [success |-> FALSE,
             response_data |-> [http_status_code |-> None, status |-> "none",
                                final_attempt |-> FALSE]]

\* ------------------------------------------------------- pure functions
\* line.strip(): the line without its leading and trailing blanks
RECURSIVE lstrip(_)
lstrip(line) ==
    IF line # <<>> /\ Head(line) = " " THEN lstrip(Tail(line)) ELSE line

RECURSIVE rstrip(_)
rstrip(line) ==
    IF line # <<>> /\ line[Len(line)] = " "
    THEN rstrip(SubSeq(line, 1, Len(line) - 1))
    ELSE line

strip(line) == rstrip(lstrip(line))

\* line.split('|')[0]: the text before the first '|', the whole line when
\* it holds no '|'
RECURSIVE FirstField(_)
FirstField(line) ==
    IF line = <<>> \/ Head(line) = "|"
    THEN <<>>
    ELSE <<Head(line)>> \o FirstField(Tail(line))

\* an entry without its status field
Entry_no_status(filename, timestamp, status) ==
    filename \o <<"|">> \o <<timestamp>>

\* the entry mark_file_as_processed writes: f"{filename}|{timestamp}|{status}"
Entry(filename, timestamp, status) ==
    filename \o <<"|">> \o <<timestamp>> \o <<"|">> \o <<status>>

\* datetime.now().strftime("%Y-%m-%d %H:%M:%S")
Timestamp == "ts"

\* a load that takes a name only from the lines that hold a separator
ParseLines_separated_only(lines, n) ==
    {FirstField(strip(lines[i])) :
        i \in {j \in 1..n : "|" \in {lines[j][k] : k \in DOMAIN lines[j]}}}

\* the loop of _load_processed_files over the first n lines of the file
ParseLines(lines, n) ==
    {FirstField(strip(lines[i])) : i \in {j \in 1..n : strip(lines[j]) # <<>>}}

\* s < t for strings, by code point
RECURSIVE StrLess(_, _)
StrLess(s, t) ==
    IF t = <<>> THEN FALSE
    ELSE IF s = <<>> THEN TRUE
    ELSE IF ord(Head(s)) # ord(Head(t)) THEN ord(Head(s)) < ord(Head(t))
    ELSE StrLess(Tail(s), Tail(t))

\* one element put in its place in a sorted list, after its equals
RECURSIVE Insert(_, _)
Insert(sorted, x) ==
    IF sorted = <<>> THEN <<x>>
    ELSE IF StrLess(basename(x), basename(Head(sorted)))
         THEN <<x>> \o sorted
         ELSE <<Head(sorted)>> \o Insert(Tail(sorted), x)

\* a scan that leaves the new files in the order of the listing
SortByBasename_unsorted(files) == files

\* new_files.sort(key=lambda x: os.path.basename(x)), a stable sort
RECURSIVE SortByBasename(_)
SortByBasename(files) ==
    IF files = <<>> THEN <<>>
    ELSE Insert(SortByBasename(SubSeq(files, 1, Len(files) - 1)),
                files[Len(files)])

\* the elements of a list
Range(seq) == {seq[i] : i \in DOMAIN seq}

\* glob's "*" matches every name that does not start with a dot
GlobMatch(name) == name[1] # "."

\* the kind of every name of the watched directory, the store file among
\* them once it exists
Entries(arrived, st) ==
    [n \in Names |->
        IF n = processed_files_filename
        THEN IF st.exists THEN "file" ELSE "none"
        ELSE arrived[n]]

\* every order in which the elements of a set can be listed
RECURSIVE Orderings(_)
Orderings(S) ==
    IF S = {} THEN {<<>>}
    ELSE UNION {{<<x>> \o l : l \in Orderings(S \ {x})} : x \in S}

\* every order in which glob.glob can enumerate the matching entries
Listings(entries) ==
    Orderings({join(directory_path, n) :
                    n \in {m \in Names : entries[m] # "none" /\ GlobMatch(m)}})

\* a scan that takes every entry of the listing for a file
isfile_any(entries, path) == entries[basename(path)] # "none"

\* os.path.isfile(path)
isfile(entries, path) == entries[basename(path)] \in {"file", "undecodable"}

\* what the file holds
Content(path) == <<"content of", basename(path)>>

\* ------------------------------------------------------------ HTTP client
\* the response_data of a POST that failed
NoData == "None"

\* what a 200/201 response body can be: a JSON object whose "status" is
\* processed, error or another string, a JSON object without "status",
\* nothing (or "{}"), a JSON array, or bytes that are not JSON
Bodies == {"processed", "error", "other", "nostatus", "empty", "list",
           "badjson"}

\* what one HTTP exchange can be: a response with a status and a body, or
\* no response at all (timeout, connection error): status None
HttpExchanges ==
    {[status_code |-> c, body |-> b] : c \in {200, 201}, b \in Bodies}
    \cup {[status_code |-> c, body |-> "text"] : c \in {404, 500}}
    \cup {[status_code |-> None, body |-> "none"]}

\* a client that keeps the HTTP status when the body cannot be decoded
post_keeping_status(exchange) ==
    IF exchange.status_code = None
    THEN [success |-> FALSE, response_data |-> NoData, status_code |-> None]
    ELSE IF exchange.status_code \in {200, 201} /\ exchange.body # "badjson"
    THEN [success |-> TRUE, response_data |-> exchange.body,
          status_code |-> exchange.status_code]
    ELSE [success |-> FALSE, response_data |-> NoData,
          status_code |-> exchange.status_code]

\* AidboxClient.post: (success, response_data, status_code)
post(exchange) ==
    IF exchange.status_code = None
    THEN [success |-> FALSE, response_data |-> NoData, status_code |-> None]
    ELSE IF exchange.status_code \in {200, 201}
    THEN IF exchange.body = "badjson"
         THEN [success |-> FALSE, response_data |-> NoData,
               status_code |-> None]
         ELSE [success |-> TRUE, response_data |-> exchange.body,
               status_code |-> exchange.status_code]
    ELSE IF exchange.status_code \in {400, 401, 403, 404}
    THEN [success |-> FALSE, response_data |-> NoData,
          status_code |-> exchange.status_code]
    ELSE [success |-> FALSE, response_data |-> NoData,
          status_code |-> exchange.status_code]

\* the exchanges the POST of iteration att of the for loop can meet
Offered(script, att) ==
    IF script = <<>> THEN HttpExchanges ELSE {script[att + 1]}

\* a send that takes only a processed answer as an answer
Truthy_only_processed(response_data) == response_data = "processed"

\* Python's truth value of a response_data
Truthy(response_data) == response_data \notin {NoData, "empty"}

\* the outcome of client.post carries a processing verdict: a JSON object
\* that is not empty, whose "status" send_hl7v2_message reads
IsVerdict(r) ==
    r.success /\ r.response_data \in {"processed", "error", "other",
                                      "nostatus"}

\* response_data.get("status", "unknown")
hl7_status(response_data) ==
    IF response_data = "nostatus" THEN "unknown" ELSE response_data

\* a send that takes every status but "error" for a success
ProcessingSuccess_unknown_ok(status) == status # "error"

\* the success flag send_hl7v2_message returns for a processing status
ProcessingSuccess(status) ==
    IF status = "error" THEN FALSE
    ELSE IF status = "processed" THEN TRUE
    ELSE FALSE

\* a loop that waits one second before every retry
SendIteration_flat_backoff(r, att) ==
    IF r.success /\ Truthy(r.response_data)
    THEN IF r.response_data = "list"
         THEN [kind |-> "raise", success |-> FALSE,
               response_data |-> NoResult.response_data, sleep |-> 0]
         ELSE [kind |-> "return",
               success |-> ProcessingSuccess(hl7_status(r.response_data)),
               response_data |->
                   [http_status_code |-> r.status_code,
                    status |-> hl7_status(r.response_data),
                    final_attempt |-> FALSE],
               sleep |-> 0]
    ELSE IF att < max_retries
         THEN [kind |-> "retry", success |-> FALSE,
               response_data |-> NoResult.response_data,
               sleep |-> 1]
         ELSE [kind |-> "return", success |-> FALSE,
               response_data |->
                   [http_status_code |-> r.status_code, status |-> "none",
                    final_attempt |-> TRUE],
               sleep |-> 0]

\* one iteration of the for loop of send_hl7v2_message on the outcome r of
\* client.post: it returns a pair, sleeps and goes round again, or raises
\* (a body that is not a JSON object has no .get)
SendIteration(r, att) ==
    IF r.success /\ Truthy(r.response_data)
    THEN IF r.response_data = "list"
         THEN [kind |-> "raise", success |-> FALSE,
               response_data |-> NoResult.response_data, sleep |-> 0]
         ELSE [kind |-> "return",
               success |-> ProcessingSuccess(hl7_status(r.response_data)),
               response_data |->
                   [http_status_code |-> r.status_code,
                    status |-> hl7_status(r.response_data),
                    final_attempt |-> FALSE],
               sleep |-> 0]
    ELSE IF att < max_retries
         THEN [kind |-> "retry", success |-> FALSE,
               response_data |-> NoResult.response_data,
               sleep |-> 1 * (att + 1)]
         ELSE [kind |-> "return", success |-> FALSE,
               response_data |->
                   [http_status_code |-> r.status_code, status |-> "none",
                    final_attempt |-> TRUE],
               sleep |-> 0]

\* a loop that takes every HTTP status, 4xx and 5xx too, as delivered
Delivered_any_status(response_data) ==
    response_data.http_status_code # None

\* a loop that gives up when the bounded sub-retry has failed
Delivered_or_final(response_data) ==
    \/ response_data.http_status_code \in {200, 201}
    \/ response_data.final_attempt

\* _send_message_with_retry: the test that ends the endless loop
Delivered(response_data) == response_data.http_status_code \in {200, 201}

\* a workflow that records every file as failed
StatusFor_always_error(success) == "error"

\* the status _process_single_file_with_retry records for a send result
StatusFor(success) == IF success THEN "success" ELSE "error"

\* ------------------------------------------------------------------ store
\* a load that answers a read error by starting the store afresh
LoadOutcomes_recreating(st) ==
    {[store |-> [exists |-> TRUE, lines |-> <<>>],
      processed_files |-> {}, status |-> "created", errors |-> 0],
     [store |-> [exists |-> TRUE, lines |-> <<>>],
      processed_files |-> {}, status |-> "error", errors |-> 1]}

\* _load_processed_files on the store st: the store afterwards, the set it
\* returns, how it ended, the errors it logged.  A read error can come
\* after any number of lines went into the set.
LoadOutcomes(st) ==
    IF ~st.exists
    THEN {[store |-> [exists |-> TRUE, lines |-> <<>>],
           processed_files |-> {}, status |-> "created", errors |-> 0],
          [store |-> st,
           processed_files |-> {}, status |-> "error", errors |-> 1]}
    ELSE {[store |-> st,
           processed_files |-> ParseLines(st.lines, Len(st.lines)),
           status |-> "ok", errors |-> 0]}
         \cup {[store |-> st,
                processed_files |-> ParseLines(st.lines, n),
                status |-> "error", errors |-> 1] : n \in 0..Len(st.lines)}

\* a scan that loads the store before it looks at the listing
ScanListing_loading_first(entries, st, listing) ==
    LET IsCandidate(f) ==
            isfile(entries, f) /\ basename(f) # processed_files_filename
        all_files == SelectSeq(listing, IsCandidate)
    IN  {LET IsNew(f) == basename(f) \notin lo.processed_files
         IN  [new_files |-> SortByBasename(SelectSeq(all_files, IsNew)),
              store |-> lo.store,
              loadStatus |-> IF all_files = <<>> THEN "none" ELSE lo.status,
              processed_files |-> lo.processed_files,
              errors |-> 0, load_errors |-> lo.errors]
         : lo \in LoadOutcomes(st)}

\* the part of get_new_files after the listing: filter, load, filter, sort
ScanListing(entries, st, listing) ==
    LET IsCandidate(f) ==
            isfile(entries, f) /\ basename(f) # processed_files_filename
        all_files == SelectSeq(listing, IsCandidate)
    IN  IF all_files = <<>>
        THEN {[new_files |-> <<>>, store |-> st, loadStatus |-> "none",
               processed_files |-> {}, errors |-> 0, load_errors |-> 0]}
        ELSE {LET IsNew(f) == basename(f) \notin lo.processed_files
              IN  [new_files |-> SortByBasename(SelectSeq(all_files, IsNew)),
                   store |-> lo.store, loadStatus |-> lo.status,
                   processed_files |-> lo.processed_files,
                   errors |-> 0, load_errors |-> lo.errors]
              : lo \in LoadOutcomes(st)}

\* get_new_files: every result it can have on a directory and a store.
\* An exception in the try block is logged and gives the empty list; a
\* directory that cannot be listed (it is gone, it is unreadable) raises
\* nothing: glob.glob catches the OSError and returns the empty list.
get_new_files(arrived, st) ==
    {[new_files |-> <<>>, store |-> st, loadStatus |-> "none",
      processed_files |-> {}, errors |-> 1, load_errors |-> 0]}
    \cup ScanListing(Entries(arrived, st), st, <<>>)
    \cup UNION {ScanListing(Entries(arrived, st), st, l) :
                  l \in Listings(Entries(arrived, st))}

\* read_file_content: what one attempt on a path can end in
ReadErrors == {"FileNotFoundError", "ValueError", "PermissionError",
               "UnicodeDecodeError", "IOError", "Exception"}

ReadOutcomes(entries, path) ==
    LET kind == entries[basename(path)]
    IN  IF kind = "file" THEN {"ok"} \cup ReadErrors
        ELSE IF kind = "undecodable" THEN {"UnicodeDecodeError"}
        ELSE IF kind = "dir" THEN {"ValueError"}
        ELSE {"FileNotFoundError"}

\* a reader that fails fast on a decode error and hands back no content
ReadHandling_failfast(outcome) ==
    IF outcome \in {"ok", "UnicodeDecodeError"} THEN "return" ELSE "retry"

\* read_file_content: what the loop does on the outcome of an attempt
ReadHandling(outcome) ==
    IF outcome = "ok" THEN "return"
    ELSE IF outcome \in {"PermissionError", "UnicodeDecodeError", "IOError",
                         "FileNotFoundError", "ValueError"}
    THEN "retry"
    ELSE "retry"

\* a file object that is closed only when the block ends without exception
with_open_leaking(handles, outcome) ==
    IF outcome = "error" THEN handles + 1 ELSE handles

\* `with open(path, mode) as file:` around a block that ends normally
\* ("ok") or in an exception ("error", the open itself included): the open
\* file objects afterwards.  The file object is closed when the block is
\* left, either way.
with_open(handles, outcome) == handles

\* a store opened for writing: the entry replaces what the file held
AppendLine_truncating(lines, entry) == <<entry>>

\* mark_file_as_processed: open(path, 'a') and write(entry)
AppendLine(lines, entry) == Append(lines, entry)

\* a batch that counts only the files whose append wrote a record
NextCount_recorded(count, marked) == IF marked THEN count + 1 ELSE count

\* process_new_files: processed_count += 1 after the workflow of a file,
\* whatever mark_file_as_processed returned to the workflow
NextCount(count, marked) == count + 1

\* a for loop that stays on the file it has just finished
NextFile_stay(i) == i

\* process_new_files: the for loop takes the next file of the scan result
NextFile(i) == i + 1

\* the except clauses an exception raised in a file's workflow meets on its
\* way out, innermost first: the workflow's own, the one of
\* process_new_files, the one of process_files_job, the one inside the
\* while loop of run_scheduler
Handlers == <<"_process_single_file_with_retry", "process_new_files",
              "process_files_job", "run_scheduler">>

\* a workflow without an except clause of its own
Catches_not_in_workflow(handler, exc) ==
    handler # "_process_single_file_with_retry" /\ exc = "Exception"

\* except clauses that catch nothing
Catches_nothing(handler, exc) == FALSE

\* `except Exception` catches every exception but those that derive from
\* BaseException only (KeyboardInterrupt, SystemExit)
Catches(handler, exc) == exc = "Exception"

\* the handler that catches the exception, "nobody" when it leaves
\* run_scheduler
RECURSIVE CaughtBy(_, _)
CaughtBy(exc, stack) ==
    IF stack = <<>> THEN "nobody"
    ELSE IF Catches(Head(stack), exc) THEN Head(stack)
    ELSE CaughtBy(exc, Tail(stack))

\* ----------------------------------------------------------------- actions
NoStore == [exists |-> FALSE, lines |-> <<>>]
NoContent == <<>>
NoRetries == [read |-> 0, send |-> 0, file |-> 0]
PerFile == Functions \ {"get_new_files", "_load_processed_files"}

Init ==
    /\ dirEntries = [n \in Names \ {processed_files_filename} |->
                        IF n = NameHidden THEN "file"
                        ELSE IF n = NameB THEN "dir"
                        ELSE "none"]
    /\ store \in {NoStore, [exists |-> TRUE, lines |-> <<>>]}
    /\ pc = "idle"
    /\ new_files = <<>>
    /\ idx = 0
    /\ processed_count = 0
    /\ content = NoContent
    /\ attempt = 0
    /\ retry_count = NoRetries
    /\ result = NoResult
    /\ send_calls = 0
    /\ log_errors = [f \in Functions |-> 0]
    /\ slept = [f \in Functions |-> <<>>]
    /\ loadStatus = "none"
    /\ processed_files = {}
    /\ returned = -1
    /\ verdicts = 0
    /\ mark_returned = "none"
    /\ exchanges = <<>>
    /\ open_handles = 0
    /\ drivers = <<>>
    /\ app = <<>>
    /\ posts = <<>>

\* a file or an undecodable file appears in the directory, between two
\* batches (a scan is the only place where the driver lists the directory)
DropEntry ==
    \E n \in Arriving, k \in Kinds :
        /\ pc = "idle"
        /\ k \in KindsOf(n)
        /\ dirEntries[n] = "none"
        /\ dirEntries' = [dirEntries EXCEPT ![n] = k]
        /\ UNCHANGED <<store, pc, new_files, idx, processed_count, content,
                       attempt, retry_count, result, send_calls, log_errors,
                       slept, loadStatus, processed_files, returned,
                       verdicts, mark_returned, exchanges, open_handles,
                       drivers, app, posts>>

\* a cycle of run_scheduler starts process_new_files: the scan, then
\* either the return of 0 or the entry of the first file's workflow
process_new_files ==
    /\ pc = "idle"
    /\ \E g \in get_new_files(dirEntries, store) :
        /\ store' = g.store
        /\ loadStatus' = g.loadStatus
        /\ processed_files' = g.processed_files
        /\ open_handles' =
              IF g.loadStatus = "none" THEN open_handles
              ELSE with_open(open_handles,
                             IF g.load_errors = 0 THEN "ok" ELSE "error")
        /\ log_errors' = [f \in Functions |->
                            IF f = "get_new_files" THEN g.errors
                            ELSE IF f = "_load_processed_files"
                                 THEN g.load_errors
                                 ELSE 0]
        /\ slept' = [f \in Functions |-> <<>>]
        /\ IF g.new_files = <<>>
           THEN /\ returned' = 0
                /\ pc' = "done"
                /\ UNCHANGED <<new_files, idx>>
           ELSE /\ pc' = "read"
                /\ new_files' = g.new_files
                /\ idx' = 1
                /\ UNCHANGED returned
    /\ processed_count' = 0
    /\ UNCHANGED <<dirEntries, content, attempt, retry_count, result,
                   send_calls, verdicts, mark_returned, exchanges,
                   drivers, app, posts>>

\* one attempt of the endless loop of read_file_content
read_file_content ==
    /\ pc = "read"
    /\ \E outcome \in ReadOutcomes(Entries(dirEntries, store),
                                   new_files[idx]) :
        IF ReadHandling(outcome) = "return"
        THEN \* the content goes to _send_message_with_retry, which makes
             \* its first call of send_hl7v2_message
             /\ content' = IF outcome = "ok" THEN Content(new_files[idx])
                           ELSE NoContent
             /\ pc' = "send"
             /\ send_calls' = 1
             /\ attempt' = 0
             /\ UNCHANGED <<retry_count, log_errors, slept>>
        ELSE /\ retry_count.read < MaxFail
             /\ retry_count' = [retry_count EXCEPT !.read = @ + 1]
             /\ log_errors' = [log_errors EXCEPT
                                 !["read_file_content"] = @ + 1]
             /\ slept' = [slept EXCEPT !["read_file_content"] =
                                          Append(@, RETRY_DELAY_SECONDS)]
             /\ UNCHANGED <<content, pc, send_calls, attempt>>
    /\ UNCHANGED <<dirEntries, store, new_files, idx, processed_count,
                   result, loadStatus, processed_files, returned, verdicts,
                   mark_returned, exchanges, open_handles, drivers,
                   app, posts>>

\* one POST of send_hl7v2_message, and what _send_message_with_retry and
\* _process_single_file_with_retry do when the call ends on it
send_hl7v2_message ==
    /\ pc = "send"
    /\ \E exchange \in Offered(exchanges, attempt) :
        LET r == post(exchange)
            it == SendIteration(r, attempt)
            h == CaughtBy("Exception", Handlers)
        IN
        /\ verdicts' = IF IsVerdict(r) THEN verdicts + 1 ELSE verdicts
        /\ mark_returned' = mark_returned
        /\ CASE it.kind = "retry" ->
                  /\ attempt' = attempt + 1
                  /\ slept' = [slept EXCEPT
                        !["read_file_content"] = <<>>,
                        !["send_hl7v2_message"] = Append(@, it.sleep)]
                  /\ log_errors' = [log_errors EXCEPT
                        !["read_file_content"] = 0]
                  /\ retry_count' = [retry_count EXCEPT !.read = 0]
                  /\ UNCHANGED <<pc, result, send_calls, content>>
                  /\ UNCHANGED <<new_files, idx, returned>>
              [] it.kind = "raise"
                    /\ h = "_process_single_file_with_retry" ->
                  \* except Exception of _process_single_file_with_retry:
                  \* the workflow starts again at the read
                  /\ retry_count.file < MaxRaise
                  /\ retry_count' = [retry_count EXCEPT
                                       !.file = @ + 1, !.send = 0, !.read = 0]
                  /\ log_errors' = [log_errors EXCEPT
                        !["_process_single_file_with_retry"] = @ + 1,
                        !["read_file_content"] = 0,
                        !["_send_message_with_retry"] = 0,
                        !["send_hl7v2_message"] = 0]
                  /\ slept' = [slept EXCEPT
                        !["_process_single_file_with_retry"] =
                            Append(@, RETRY_DELAY_SECONDS),
                        !["read_file_content"] = <<>>,
                        !["_send_message_with_retry"] = <<>>,
                        !["send_hl7v2_message"] = <<>>]
                  /\ pc' = "read"
                  /\ attempt' = 0
                  /\ send_calls' = 0
                  /\ content' = NoContent
                  /\ UNCHANGED result
                  /\ UNCHANGED <<new_files, idx, returned>>
              [] it.kind = "raise"
                    /\ h # "_process_single_file_with_retry" ->
                  \* the exception leaves the workflow: process_new_files
                  \* returns its count, or the cycle ends without a
                  \* result, or the scheduler ends
                  /\ pc' = IF h = "nobody" THEN "crashed" ELSE "done"
                  /\ returned' = IF h = "process_new_files"
                                  THEN processed_count ELSE -1
                  /\ new_files' = <<>>
                  /\ idx' = 0
                  /\ retry_count' = NoRetries
                  /\ log_errors' = [f \in Functions |->
                                      IF f \in PerFile THEN 0
                                      ELSE log_errors[f]]
                  /\ slept' = [f \in Functions |-> <<>>]
                  /\ attempt' = 0
                  /\ send_calls' = 0
                  /\ content' = NoContent
                  /\ result' = NoResult
              [] it.kind = "return" /\ Delivered(it.response_data) ->
                  /\ result' = [success |-> it.success,
                                response_data |-> it.response_data]
                  /\ log_errors' = [log_errors EXCEPT
                        !["read_file_content"] = 0,
                        !["send_hl7v2_message"] = 0]
                  /\ slept' = [slept EXCEPT
                        !["read_file_content"] = <<>>,
                        !["send_hl7v2_message"] = <<>>]
                  /\ retry_count' = [retry_count EXCEPT !.read = 0]
                  /\ pc' = "mark"
                  /\ attempt' = 0
                  /\ UNCHANGED <<content, send_calls>>
                  /\ UNCHANGED <<new_files, idx, returned>>
              [] OTHER ->
                  \* not delivered: log, sleep, call send_hl7v2_message
                  \* again
                  /\ retry_count.send < MaxFail
                  /\ result' = [success |-> it.success,
                                response_data |-> it.response_data]
                  /\ retry_count' = [retry_count EXCEPT
                                       !.send = @ + 1, !.read = 0]
                  /\ log_errors' = [log_errors EXCEPT
                        !["read_file_content"] = 0,
                        !["_send_message_with_retry"] = @ + 1,
                        !["send_hl7v2_message"] = 0]
                  /\ slept' = [slept EXCEPT
                        !["read_file_content"] = <<>>,
                        !["_send_message_with_retry"] =
                            Append(@, RETRY_DELAY_SECONDS),
                        !["send_hl7v2_message"] = <<>>]
                  /\ send_calls' = send_calls + 1
                  /\ attempt' = 0
                  /\ UNCHANGED <<pc, content>>
                  /\ UNCHANGED <<new_files, idx, returned>>
    /\ UNCHANGED <<dirEntries, store, processed_count, loadStatus,
                   processed_files, exchanges, open_handles, drivers,
                   app, posts>>

\* mark_file_as_processed for the delivered file, then the for loop of
\* process_new_files: the next file's workflow or the return
mark_file_as_processed ==
    /\ pc = "mark"
    /\ \E ok \in BOOLEAN :
        /\ IF ok
           THEN /\ Len(store.lines) < MaxStore
                /\ store' = [exists |-> TRUE,
                             lines |-> AppendLine(store.lines,
                                         Entry(basename(new_files[idx]),
                                               Timestamp,
                                               StatusFor(result.success)))]
                /\ log_errors' = [f \in Functions |->
                                    IF f \in PerFile THEN 0
                                    ELSE log_errors[f]]
           ELSE /\ store' = store
                /\ log_errors' = [f \in Functions |->
                                    IF f = "mark_file_as_processed" THEN 1
                                    ELSE IF f \in PerFile THEN 0
                                    ELSE log_errors[f]]
        /\ mark_returned' = (IF ok THEN "True" ELSE "False")
        /\ open_handles' = with_open(open_handles,
                                     IF ok THEN "ok" ELSE "error")
        /\ processed_count' = NextCount(processed_count, ok)
        /\ IF idx < Len(new_files)
           THEN /\ idx' = NextFile(idx)
                /\ pc' = "read"
                /\ UNCHANGED <<new_files, returned>>
           ELSE /\ idx' = 0
                /\ pc' = "done"
                /\ new_files' = <<>>
                /\ returned' = NextCount(processed_count, ok)
    /\ content' = NoContent
    /\ attempt' = 0
    /\ retry_count' = NoRetries
    /\ result' = NoResult
    /\ send_calls' = 0
    /\ slept' = [f \in Functions |-> <<>>]
    /\ verdicts' = 0
    /\ UNCHANGED <<dirEntries, loadStatus, processed_files, exchanges,
                   drivers, app, posts>>

\* run_scheduler: the batch has returned, the loop sleeps the interval;
\* nothing of the finished batch lives on
run_scheduler ==
    /\ pc = "done"
    /\ pc' = "idle"
    /\ processed_count' = 0
    /\ log_errors' = [f \in Functions |-> 0]
    /\ slept' = [f \in Functions |-> <<>>]
    /\ loadStatus' = "none"
    /\ processed_files' = {}
    /\ returned' = -1
    /\ mark_returned' = "none"
    /\ UNCHANGED <<dirEntries, store, new_files, idx, content, attempt,
                   retry_count, result, send_calls, verdicts, exchanges,
                   open_handles, drivers, app, posts>>

Next ==
    \/ DropEntry
    \/ run_scheduler
    \/ process_new_files
    \/ read_file_content
    \/ send_hl7v2_message
    \/ mark_file_as_processed

Spec == Init /\ [][Next]_vars

\* ------------------------------------------------------- a single scan
\* lines a store file can hold when the driver is constructed: records of
\* earlier runs, a line without separator, a padded line, a blank line
StoreLines ==
    {Entry(NameA, Timestamp, "success"), Entry(NamePipe, Timestamp, "error"),
     Entry(NameAB, Timestamp, "success"), NameB, <<" ", "a", "b", " ">>,
     <<" ">>}

\* the stores a scan can meet
ScanStores ==
    {NoStore} \cup
    {[exists |-> TRUE, lines |-> l] :
        l \in UNION {[1..k -> StoreLines] : k \in 0..MaxStore}}

\* the directories a scan can meet: under every name a regular file or
\* nothing, under the name b a subdirectory as well
ScanDirectories ==
    {d \in [Names \ {processed_files_filename} -> {"none", "file", "dir"}] :
        /\ Cardinality({n \in DOMAIN d : d[n] # "none"}) <= MaxPresent
        /\ \A n \in DOMAIN d : d[n] = "dir" => n = NameB}

\* a driver constructed on any such directory and store
ScanInit ==
    /\ dirEntries \in ScanDirectories
    /\ store \in ScanStores
    /\ pc = "idle"
    /\ new_files = <<>>
    /\ idx = 0
    /\ processed_count = 0
    /\ content = NoContent
    /\ attempt = 0
    /\ retry_count = NoRetries
    /\ result = NoResult
    /\ send_calls = 0
    /\ log_errors = [f \in Functions |-> 0]
    /\ slept = [f \in Functions |-> <<>>]
    /\ loadStatus = "none"
    /\ processed_files = {}
    /\ returned = -1
    /\ verdicts = 0
    /\ mark_returned = "none"
    /\ exchanges = <<>>
    /\ open_handles = 0
    /\ drivers = <<>>
    /\ app = <<>>
    /\ posts = <<>>

\* the scan of process_new_files applied to it
ScanSpec == ScanInit /\ [][process_new_files]_vars

\* the last scan got no listing although the directory holds files it
\* lists: the store was not loaded
ListingFailed ==
    /\ pc # "idle"
    /\ loadStatus = "none"
    /\ \E n \in DOMAIN dirEntries :
          dirEntries[n] \in {"file", "undecodable"} /\ n[1] # "."

\* the steps at which an operation gets through: a scan that lists the
\* directory and logs no error, a read that returns the content, a send
\* that is delivered, an append that writes its line
ScanOk ==
    /\ process_new_files
    /\ log_errors'["get_new_files"] = 0
    /\ log_errors'["_load_processed_files"] = 0
    /\ ~ListingFailed'
ReadOk == read_file_content /\ pc' = "send"
SendDelivered == send_hl7v2_message /\ pc' = "mark"
AppendOk == mark_file_as_processed /\ store' # store

\* the scheduler keeps calling process_new_files, the driver keeps taking
\* its steps, and no operation fails for ever: failures are transient
FairSpec ==
    /\ Spec
    /\ WF_vars(run_scheduler)
    /\ WF_vars(mark_file_as_processed)
    /\ SF_vars(ScanOk)
    /\ SF_vars(ReadOk)
    /\ SF_vars(SendDelivered)
    /\ SF_vars(AppendOk)

\* ------------------------------------------------ a single file's send
\* exchanges a POST can meet, one of each kind: an answer that is
\* processed, one that is refused, an empty body, a JSON array, a client
\* error, a server error, no response
ScriptExchanges ==
    {[status_code |-> 200, body |-> "processed"],
     [status_code |-> 201, body |-> "error"],
     [status_code |-> 200, body |-> "empty"],
     [status_code |-> 201, body |-> "list"],
     [status_code |-> 404, body |-> "text"],
     [status_code |-> 500, body |-> "text"],
     [status_code |-> None, body |-> "none"]}

\* the driver has scanned and read the file a and makes its first call of
\* send_hl7v2_message; the POSTs of a call will meet any max_retries + 1
\* exchanges
SendInit ==
    /\ dirEntries = [n \in Names \ {processed_files_filename} |->
                        IF n = NameA THEN "file" ELSE "none"]
    /\ store = [exists |-> TRUE, lines |-> <<>>]
    /\ pc = "send"
    /\ new_files = <<join(directory_path, NameA)>>
    /\ idx = 1
    /\ processed_count = 0
    /\ content = Content(join(directory_path, NameA))
    /\ attempt = 0
    /\ retry_count = NoRetries
    /\ result = NoResult
    /\ send_calls = 1
    /\ log_errors = [f \in Functions |-> 0]
    /\ slept = [f \in Functions |-> <<>>]
    /\ loadStatus = "ok"
    /\ processed_files = {}
    /\ returned = -1
    /\ verdicts = 0
    /\ mark_returned = "none"
    /\ exchanges \in [1..(max_retries + 1) -> ScriptExchanges]
    /\ open_handles = 0
    /\ drivers = <<>>
    /\ app = <<>>
    /\ posts = <<>>

\* the calls of send_hl7v2_message made for the file
SendSpec == SendInit /\ [][send_hl7v2_message]_vars

\* --------------------------------------------- two drivers side by side
\* two FileProcessor instances (two processes) on one directory and store
Drivers == {1, 2}

\* the variables of the single driver
single == <<pc, new_files, idx, processed_count, content, attempt,
            retry_count, result, send_calls, log_errors, slept, loadStatus,
            processed_files, returned, mark_returned, exchanges,
            open_handles, app, posts, verdicts>>

\* a driver that has not started its batch
IdleDriver == [pc |-> "idle", new_files |-> <<>>, idx |-> 0,
               processed_files |-> {}, success |-> FALSE, sent |-> <<>>]

\* both drivers are constructed on a directory that holds any of the files
\* a and a|b, and a store that is absent or empty
ConcurrentInit ==
    /\ dirEntries \in
          {d \in [Names \ {processed_files_filename} ->
                     {"none", "file", "dir"}] :
              /\ d[NameHidden] = "file" /\ d[NameB] = "dir"
              /\ d[NameAB] = "none"
              /\ \A n \in Arriving : d[n] \in {"none", "file"}}
    /\ store \in {NoStore, [exists |-> TRUE, lines |-> <<>>]}
    /\ drivers = [d \in Drivers |-> IdleDriver]
    /\ app = <<>>
    /\ posts = <<>>
    /\ pc = "idle"
    /\ new_files = <<>>
    /\ idx = 0
    /\ processed_count = 0
    /\ content = NoContent
    /\ attempt = 0
    /\ retry_count = NoRetries
    /\ result = NoResult
    /\ send_calls = 0
    /\ log_errors = [f \in Functions |-> 0]
    /\ slept = [f \in Functions |-> <<>>]
    /\ loadStatus = "none"
    /\ processed_files = {}
    /\ returned = -1
    /\ verdicts = 0
    /\ mark_returned = "none"
    /\ exchanges = <<>>
    /\ open_handles = 0

\* driver d calls process_new_files: its scan lists the directory and
\* loads the store as they are at this moment
concurrent_get_new_files(d) ==
    /\ drivers[d].pc = "idle"
    /\ \E g \in get_new_files(dirEntries, store) :
        /\ store' = g.store
        /\ drivers' = [drivers EXCEPT ![d] =
              [@ EXCEPT !.pc = IF g.new_files = <<>> THEN "done" ELSE "send",
                        !.new_files = g.new_files,
                        !.idx = IF g.new_files = <<>> THEN 0 ELSE 1,
                        !.processed_files = g.processed_files]]
    /\ UNCHANGED <<dirEntries, single>>

\* driver d reads the file in hand and sends it until it is delivered; the
\* answer says processed or not
concurrent_send_message(d) ==
    /\ drivers[d].pc = "send"
    /\ \E success \in BOOLEAN :
        drivers' = [drivers EXCEPT ![d] =
              [@ EXCEPT !.pc = "mark",
                        !.success = success,
                        !.sent = Append(@, basename(
                                     drivers[d].new_files[drivers[d].idx]))]]
    /\ UNCHANGED <<dirEntries, store, single>>

\* driver d makes the append attempt for the file in hand and takes the
\* next file of its scan result, or returns
concurrent_mark_file(d) ==
    /\ drivers[d].pc = "mark"
    /\ \E ok \in BOOLEAN :
        /\ IF ok
           THEN /\ Len(store.lines) < MaxStore
                /\ store' = [exists |-> TRUE,
                             lines |-> AppendLine(store.lines,
                                 Entry(basename(
                                         drivers[d].new_files[drivers[d].idx]),
                                       Timestamp,
                                       StatusFor(drivers[d].success)))]
           ELSE store' = store
        /\ drivers' = [drivers EXCEPT ![d] =
              IF drivers[d].idx < Len(drivers[d].new_files)
              THEN [@ EXCEPT !.pc = "send", !.idx = NextFile(@)]
              ELSE [@ EXCEPT !.pc = "done"]]
    /\ UNCHANGED <<dirEntries, single>>

ConcurrentNext ==
    \/ \E d \in Drivers : concurrent_get_new_files(d)
    \/ \E d \in Drivers : concurrent_send_message(d)
    \/ \E d \in Drivers : concurrent_mark_file(d)

ConcurrentSpec == ConcurrentInit /\ [][ConcurrentNext]_vars

\* ------------------------------- two drivers, the load taken step by step
\* open(path, 'w'): the file is created, or truncated when it exists
open_w(st) == [exists |-> TRUE, lines |-> <<>>]

\* driver d scans: the directory holds a candidate, and the test
\* os.path.exists of _load_processed_files finds no store
concurrent_exists(d) ==
    /\ drivers[d].pc = "idle"
    /\ ~store.exists
    /\ \E n \in Arriving : dirEntries[n] = "file"
    /\ drivers' = [drivers EXCEPT ![d] = [@ EXCEPT !.pc = "create"]]
    /\ UNCHANGED <<dirEntries, store, single>>

\* driver d, which found no store, creates it empty (or fails to), returns
\* the empty set from the load, and its scan returns every candidate
concurrent_create(d) ==
    /\ drivers[d].pc = "create"
    /\ \E g \in get_new_files(dirEntries, NoStore) :
        /\ g.loadStatus \in {"created", "error"}
        /\ store' = IF g.loadStatus = "created" THEN open_w(store) ELSE store
        /\ drivers' = [drivers EXCEPT ![d] =
              [@ EXCEPT !.pc = "send",
                        !.new_files = g.new_files,
                        !.idx = 1,
                        !.processed_files = g.processed_files]]
    /\ UNCHANGED <<dirEntries, single>>

CreateRaceNext ==
    \/ \E d \in Drivers : concurrent_exists(d)
    \/ \E d \in Drivers : concurrent_create(d)
    \/ \E d \in Drivers : concurrent_get_new_files(d)
    \/ \E d \in Drivers : concurrent_send_message(d)
    \/ \E d \in Drivers : concurrent_mark_file(d)

CreateRaceSpec == ConcurrentInit /\ [][CreateRaceNext]_vars

\* ------------------------------- one batch under exceptions at any point
\* The try of _process_single_file_with_retry covers the whole workflow of
\* a file: the read, the send, the reading of the answer, the call of
\* mark_file_as_processed and the log line after it.  Here an exception
\* can also leave a statement after the send has returned (a failing
\* allocation, a failing log call), which the operations of the driver
\* above never raise by themselves.

\* one batch on a directory that holds any of the files a and a|b, with a
\* store that is absent or empty
ExceptionInit ==
    /\ dirEntries \in
          {d \in [Names \ {processed_files_filename} ->
                     {"none", "file", "dir"}] :
              /\ d[NameHidden] = "file" /\ d[NameB] = "dir"
              /\ d[NameAB] = "none"
              /\ \A n \in Arriving : d[n] \in {"none", "file"}}
    /\ store \in {NoStore, [exists |-> TRUE, lines |-> <<>>]}
    /\ drivers = <<>>
    /\ app = <<>>
    /\ posts = <<>>
    /\ pc = "idle"
    /\ new_files = <<>>
    /\ idx = 0
    /\ processed_count = 0
    /\ content = NoContent
    /\ attempt = 0
    /\ retry_count = NoRetries
    /\ result = NoResult
    /\ send_calls = 0
    /\ log_errors = [f \in Functions |-> 0]
    /\ slept = [f \in Functions |-> <<>>]
    /\ loadStatus = "none"
    /\ processed_files = {}
    /\ returned = -1
    /\ verdicts = 0
    /\ mark_returned = "none"
    /\ exchanges = <<>>
    /\ open_handles = 0

\* the handler of _process_single_file_with_retry: one error report, one
\* sleep, and the loop starts the workflow of the same file again
except_Exception ==
    /\ CaughtBy("Exception", Handlers) = "_process_single_file_with_retry"
    /\ retry_count.file < MaxRaise
    /\ retry_count' = [retry_count EXCEPT
                         !.file = @ + 1, !.send = 0, !.read = 0]
    /\ slept' = [slept EXCEPT
          !["_process_single_file_with_retry"] =
              Append(@, RETRY_DELAY_SECONDS),
          !["read_file_content"] = <<>>,
          !["_send_message_with_retry"] = <<>>,
          !["send_hl7v2_message"] = <<>>]
    /\ pc' = "read"
    /\ attempt' = 0
    /\ send_calls' = 0
    /\ content' = NoContent
    /\ UNCHANGED <<new_files, idx, returned, processed_count, result,
                   verdicts>>

\* an exception after _send_message_with_retry has returned, before the
\* call of mark_file_as_processed
raise_after_send ==
    /\ pc = "mark"
    /\ except_Exception
    /\ log_errors' = [log_errors EXCEPT
          !["_process_single_file_with_retry"] = @ + 1,
          !["read_file_content"] = 0,
          !["_send_message_with_retry"] = 0,
          !["send_hl7v2_message"] = 0]
    /\ UNCHANGED <<dirEntries, store, loadStatus, processed_files,
                   mark_returned, exchanges, open_handles, drivers, app,
                   posts>>

\* mark_file_as_processed has made its append attempt and returned, and
\* the log line that follows it raises
raise_after_mark ==
    /\ pc = "mark"
    /\ except_Exception
    /\ \E ok \in BOOLEAN :
        /\ IF ok
           THEN /\ Len(store.lines) < MaxStore
                /\ store' = [exists |-> TRUE,
                             lines |-> AppendLine(store.lines,
                                         Entry(basename(new_files[idx]),
                                               Timestamp,
                                               StatusFor(result.success)))]
           ELSE store' = store
        /\ log_errors' = [log_errors EXCEPT
              !["_process_single_file_with_retry"] = @ + 1,
              !["mark_file_as_processed"] = IF ok THEN 0 ELSE 1,
              !["read_file_content"] = 0,
              !["_send_message_with_retry"] = 0,
              !["send_hl7v2_message"] = 0]
        /\ mark_returned' = (IF ok THEN "True" ELSE "False")
        /\ open_handles' = with_open(open_handles,
                                     IF ok THEN "ok" ELSE "error")
    /\ UNCHANGED <<dirEntries, loadStatus, processed_files, exchanges,
                   drivers, app, posts>>

ExceptionNext ==
    \/ process_new_files
    \/ read_file_content
    \/ send_hl7v2_message
    \/ mark_file_as_processed
    \/ raise_after_send
    \/ raise_after_mark

ExceptionSpec == ExceptionInit /\ [][ExceptionNext]_vars

\* ------------------------------------ one batch while files keep arriving
\* a file or an undecodable file appears in the directory while a batch is
\* running, after its scan
DropEntryDuringBatch ==
    \E n \in Arriving, k \in Kinds :
        /\ pc \in {"read", "send", "mark"}
        /\ k \in KindsOf(n)
        /\ dirEntries[n] = "none"
        /\ dirEntries' = [dirEntries EXCEPT ![n] = k]
        /\ UNCHANGED <<store, pc, new_files, idx, processed_count, content,
                       attempt, retry_count, result, send_calls, log_errors,
                       slept, loadStatus, processed_files, returned,
                       verdicts, mark_returned, exchanges, open_handles,
                       drivers, app, posts>>

\* one call of process_new_files, from the scan to the return
BatchNext ==
    \/ process_new_files
    \/ read_file_content
    \/ send_hl7v2_message
    \/ mark_file_as_processed
    \/ DropEntryDuringBatch

BatchSpec == ExceptionInit /\ [][BatchNext]_vars

\* ------------------------------------------- the HTTP client on its own
\* most calls of post examined in a row
MaxPosts == 2

\* what the session.post of a call can meet: a response of any status with
\* a body, or an exception (status None, its kind in the place of the
\* body): a timeout, a connection error, another request error, any other
\* exception
PostExchanges ==
    HttpExchanges
    \cup {[status_code |-> c, body |-> "text"] :
            c \in {204, 302, 400, 401, 403, 503}}
    \cup {[status_code |-> None, body |-> e] :
            e \in {"Timeout", "ConnectionError", "RequestException",
                   "Exception"}}

PostInit ==
    /\ dirEntries = [n \in Names \ {processed_files_filename} |->
                        IF n = NameHidden THEN "file"
                        ELSE IF n = NameB THEN "dir"
                        ELSE "none"]
    /\ store = NoStore
    /\ drivers = <<>>
    /\ app = <<>>
    /\ posts = <<>>
    /\ pc = "idle"
    /\ new_files = <<>>
    /\ idx = 0
    /\ processed_count = 0
    /\ content = NoContent
    /\ attempt = 0
    /\ retry_count = NoRetries
    /\ result = NoResult
    /\ send_calls = 0
    /\ log_errors = [f \in Functions |-> 0]
    /\ slept = [f \in Functions |-> <<>>]
    /\ loadStatus = "none"
    /\ processed_files = {}
    /\ returned = -1
    /\ verdicts = 0
    /\ mark_returned = "none"
    /\ exchanges = <<>>
    /\ open_handles = 0

\* one call of AidboxClient.post
AidboxClient_post ==
    /\ Len(posts) < MaxPosts
    /\ \E exchange \in PostExchanges :
        posts' = Append(posts, [exchange |-> exchange,
                                outcome |-> post(exchange)])
    /\ UNCHANGED <<dirEntries, store, pc, new_files, idx, processed_count,
                   content, attempt, retry_count, result, send_calls,
                   log_errors, slept, loadStatus, processed_files, returned,
                   mark_returned, exchanges, open_handles, drivers, app,
                   verdicts>>

PostSpec == PostInit /\ [][AidboxClient_post]_vars

\* ------------------------------------------------ the application, main.py
\* config.schedule_interval
SCHEDULE_INTERVAL == 10

\* how a call of the module-level process_new_files can end: it returns a
\* count, or an exception leaves it
BatchOutcomes ==
    {[returned |-> n, raised |-> "none"] : n \in 0..MaxPresent}
    \cup {[returned |-> -1, raised |-> e] :
            e \in {"Exception", "KeyboardInterrupt"}}

\* a job that lets the exception of the batch go on to its caller
JobResult_reraising(batch, escapes) ==
    [returned |-> batch.returned, raised |-> batch.raised, errors |-> 0]

\* process_files_job on a call of process_new_files that ended as batch:
\* what the job returns, what leaves it, the errors it reports.  escapes:
\* the handler of the job itself ends in an exception (its error report
\* fails), the case the try around the job call in run_scheduler is for.
JobResult(batch, escapes) ==
    IF batch.raised = "none"
    THEN [returned |-> batch.returned, raised |-> "none", errors |-> 0]
    ELSE IF batch.raised = "Exception"
    THEN IF escapes
         THEN [returned |-> -1, raised |-> "Exception", errors |-> 0]
         ELSE [returned |-> 0, raised |-> "none", errors |-> 1]
    ELSE [returned |-> -1, raised |-> batch.raised, errors |-> 0]

\* a scheduler without the try around the job call
SchedulerHandling_unguarded_job(where, exc) ==
    IF exc = "none" THEN "continue"
    ELSE IF exc = "KeyboardInterrupt" THEN "stop"
    ELSE "raise"

\* run_scheduler: what the loop does when the statement at `where` ("cycle":
\* the head of the loop, "job": the job call, "sleep": time.sleep) ends
\* with exc
SchedulerHandling(where, exc) ==
    IF exc = "none" THEN "continue"
    ELSE IF exc = "Exception" /\ where = "job" THEN "continue"
    ELSE IF exc = "KeyboardInterrupt" THEN "stop"
    ELSE "raise"

\* a gate that is shut only by an exception
Validated_unless_raised(v) == v \in {"True", "False"}

\* main: `if not config.validate()` lets the start of the scheduler through
Validated(v) == v = "True"

\* the application before main runs
AppInit == [pc |-> "main", validate |-> "none", cycle |-> 0,
            events |-> <<>>,
            errors |-> [main |-> 0, run_scheduler |-> 0],
            exit_status |-> -1]

\* the application record a after run_scheduler handled, as h, the end of
\* a statement of its loop: on "raise" the outer handler of run_scheduler
\* reports and raises again, and main reports and exits with status 1
Handled(a, h, next) ==
    IF h = "continue" THEN [a EXCEPT !.pc = next]
    ELSE IF h = "stop" THEN [a EXCEPT !.pc = "stopped"]
    ELSE [a EXCEPT !.pc = "exited",
                   !.errors.run_scheduler = @ + 1,
                   !.errors.main = @ + 1,
                   !.exit_status = 1]

MainInit ==
    /\ dirEntries = [n \in Names \ {processed_files_filename} |->
                        IF n = NameHidden THEN "file"
                        ELSE IF n = NameB THEN "dir"
                        ELSE "none"]
    /\ store = NoStore
    /\ drivers = <<>>
    /\ app = AppInit
    /\ posts = <<>>
    /\ pc = "idle"
    /\ new_files = <<>>
    /\ idx = 0
    /\ processed_count = 0
    /\ content = NoContent
    /\ attempt = 0
    /\ retry_count = NoRetries
    /\ result = NoResult
    /\ send_calls = 0
    /\ log_errors = [f \in Functions |-> 0]
    /\ slept = [f \in Functions |-> <<>>]
    /\ loadStatus = "none"
    /\ processed_files = {}
    /\ returned = -1
    /\ verdicts = 0
    /\ mark_returned = "none"
    /\ exchanges = <<>>
    /\ open_handles = 0

\* the variables of the driver, the directory and the store
driver == <<dirEntries, store, pc, new_files, idx, processed_count, content,
            attempt, retry_count, result, send_calls, log_errors, slept,
            loadStatus, processed_files, returned, mark_returned, exchanges,
            open_handles, drivers, posts, verdicts>>

\* main up to the call of run_scheduler: setup_logger and config.validate
\* return or raise; v is what they gave
main ==
    /\ app.pc = "main"
    /\ \E v \in {"True", "False", "raise", "KeyboardInterrupt"} :
        app' = [app EXCEPT
                  !.validate = v,
                  !.pc = IF v = "raise" THEN "exited"
                         ELSE IF v = "KeyboardInterrupt" THEN "returned"
                         ELSE IF Validated(v) THEN "loop"
                         ELSE "returned",
                  !.errors.main = IF v = "raise" \/ v = "False"
                                  THEN 1 ELSE 0,
                  !.exit_status = IF v = "raise" THEN 1 ELSE -1]
    /\ UNCHANGED driver

\* run_scheduler: the head of the loop, cycle += 1 and the log line of the
\* cycle; a KeyboardInterrupt can arrive here
run_scheduler_cycle ==
    /\ app.pc = "loop"
    /\ app.cycle < MaxCycle
    /\ \E exc \in {"none", "KeyboardInterrupt"} :
        app' = Handled([app EXCEPT !.cycle = @ + 1],
                       SchedulerHandling("cycle", exc), "job")
    /\ UNCHANGED driver

\* run_scheduler calls process_files_job, which calls process_new_files
process_files_job ==
    /\ app.pc = "job"
    /\ \E batch \in BatchOutcomes, escapes \in BOOLEAN :
        LET j == JobResult(batch, escapes)
            a == [app EXCEPT
                    !.events = Append(@, [call |-> "process_files_job",
                                          batch |-> batch.returned,
                                          batch_raised |-> batch.raised,
                                          handler_failed |-> escapes,
                                          returned |-> j.returned,
                                          raised |-> j.raised,
                                          errors |-> j.errors]),
                    !.errors.run_scheduler =
                        IF j.raised = "Exception"
                           /\ SchedulerHandling("job", j.raised) = "continue"
                        THEN @ + 1 ELSE @]
        IN  /\ escapes => batch.raised = "Exception"
            /\ app' = Handled(a, SchedulerHandling("job", j.raised), "sleep")
    /\ UNCHANGED driver

\* run_scheduler sleeps the interval; time.sleep returns or ends with a
\* KeyboardInterrupt or an exception
time_sleep ==
    /\ app.pc = "sleep"
    /\ \E exc \in {"none", "KeyboardInterrupt", "Exception"} :
        LET a == [app EXCEPT
                    !.events = Append(@, [call |-> "time.sleep",
                                          batch |-> -1,
                                          batch_raised |-> "none",
                                          handler_failed |-> FALSE,
                                          returned |-> SCHEDULE_INTERVAL,
                                          raised |-> exc,
                                          errors |-> 0])]
        IN  app' = Handled(a, SchedulerHandling("sleep", exc), "loop")
    /\ UNCHANGED driver

MainNext ==
    \/ main
    \/ run_scheduler_cycle
    \/ process_files_job
    \/ time_sleep

MainSpec == MainInit /\ [][MainNext]_vars

\* ------------------------------------------------------------ properties
\* the file whose workflow is running
file_path == new_files[idx]

\* k sleeps of the configured retry delay
Delays(k) == [i \in 1..k |-> RETRY_DELAY_SECONDS]

\* a batch is running: process_new_files is in its for loop
InBatch == pc \in {"read", "send", "mark"}

\* the lines mark_file_as_processed writes for the filename n
RecordsOf(n) == {Entry(n, Timestamp, s) : s \in {"success", "error"}}

\* the store holds a record written for the filename n
HasRecord(n) == \E i \in DOMAIN store.lines : store.lines[i] \in RecordsOf(n)

\* the file at position i of the scan result fails every read
Unreadable(i) ==
    /\ i \in DOMAIN new_files
    /\ dirEntries[basename(new_files[i])] = "undecodable"

\* C1: a file that has a record in the store is not returned by a later
\* scan and is not sent again.  Stated here for the scans whose load of
\* the store met no read error (the claim covers every outcome of the
\* store I/O): while a batch runs, no file still to be processed has a
\* record.
C1_IdempotentScan ==
    (InBatch /\ loadStatus # "error")
        => \A i \in idx..Len(new_files) : ~HasRecord(basename(new_files[i]))

\* C3: the store never holds more than one record appended by the driver
\* for the same filename.  Stated here for the batches whose load of the
\* store met no read error: such a batch appends no record for a filename
\* that has one already.
C3_NoDuplicateRecord ==
    [][(pc = "mark" /\ loadStatus # "error" /\ store' # store)
          => ~HasRecord(basename(file_path))]_vars

\* C4 as stated: only an attempt that ended without any HTTP status leads
\* to another attempt of _send_message_with_retry; a response with any
\* status, 4xx and 5xx too, ends the loop.
C4_AnyStatusDelivered ==
    (pc = "send" /\ retry_count.send > 0)
        => result.response_data.http_status_code = None

\* C4 amended: _send_message_with_retry returns exactly at an attempt that
\* ended with HTTP status 200 or 201; an attempt that ended with another
\* status (4xx, 5xx) or without a status leads to another attempt.
C4_DeliveredIs200Or201 ==
    /\ (pc = "send" /\ retry_count.send > 0)
           => result.response_data.http_status_code \notin {200, 201}
    /\ pc = "mark" => result.response_data.http_status_code \in {200, 201}

\* a 5xx answer was taken as not delivered and the send is being retried
C4_Witness ==
    /\ pc = "send"
    /\ retry_count.send > 0
    /\ result.response_data.http_status_code = 500

\* C5: _send_message_with_retry returns only at a delivered attempt, with
\* the pair of that attempt; after k attempts that were not delivered it
\* has logged k errors, slept k times the retry delay and called
\* send_hl7v2_message k + 1 times, for every k.
C5_EndlessSendRetry ==
    /\ pc \in {"send", "mark"} =>
          /\ log_errors["_send_message_with_retry"] = retry_count.send
          /\ slept["_send_message_with_retry"] = Delays(retry_count.send)
          /\ send_calls = retry_count.send + 1
    /\ pc = "mark" =>
          /\ result.response_data.http_status_code \in {200, 201}
          /\ result.response_data.final_attempt => ~result.success
    /\ (pc = "send" /\ retry_count.send > 0) =>
          /\ result.response_data.final_attempt
          /\ ~result.success

\* the send returned at its third attempt, after two that were not delivered
C5_Witness ==
    /\ pc = "mark"
    /\ retry_count.send = 2
    /\ send_calls = 3

Appended(status) ==
    store'.lines = Append(store.lines,
                          Entry(basename(file_path), Timestamp, status))

\* the append failed: nothing is written and the error is logged
AppendFailed ==
    store' = store /\ log_errors'["mark_file_as_processed"] = 1

\* the for loop of process_new_files counts the file and goes on
MovesOn ==
    /\ processed_count' = processed_count + 1
    /\ \/ pc' = "read" /\ idx' = idx + 1 /\ new_files' = new_files
       \/ pc' = "done" /\ idx = Len(new_files)
                       /\ returned' = processed_count + 1

\* C7: when the file at a position of the scan result fails every read,
\* the batch stays in the read of that file at the latest: the files
\* before it have gone through their workflow, no file after it is read,
\* sent or recorded, process_new_files does not return, and the read goes
\* on logging and sleeping without a bound of its own.
C7_UnreadableBlocks ==
    /\ [](InBatch =>
            \A i \in DOMAIN new_files :
                Unreadable(i) =>
                    /\ idx <= i
                    /\ idx = i =>
                          /\ pc = "read"
                          /\ processed_count = i - 1
                          /\ log_errors["read_file_content"]
                                 = retry_count.read
                          /\ slept["read_file_content"]
                                 = Delays(retry_count.read))
    /\ [][(InBatch /\ \E i \in DOMAIN new_files : Unreadable(i))
             => /\ pc' \in {"read", "send", "mark"}
                /\ returned' = -1
                /\ new_files' = new_files]_vars
    /\ [][(InBatch /\ store' # store)
             => /\ pc = "mark"
                /\ \E st \in {"success", "error"} : Appended(st)]_vars

\* the second file of the scan result fails every read: the first has gone
\* through, the driver is in its third attempt to read the second
C7_Witness ==
    /\ pc = "read"
    /\ idx = 2
    /\ Unreadable(2)
    /\ retry_count.read = 2
    /\ processed_count = 1

C9_OutcomeMapping ==
    /\ [](\A i \in DOMAIN store.lines :
            store.lines[i][Len(store.lines[i])] \in {"success", "error"})
    /\ [][(pc = "mark" /\ store' # store)
             => Appended(IF result.response_data.status = "processed"
                         THEN "success" ELSE "error")]_vars

\* an answer with an unknown processing status is about to be recorded
C9_Witness ==
    /\ pc = "mark"
    /\ result.response_data.status = "other"
    /\ Len(store.lines) < MaxStore

AppendBlocked(n) ==
    /\ pc = "mark"
    /\ basename(file_path) = n
    /\ Len(store.lines) >= MaxStore

\* C2: when the scheduler keeps calling process_new_files and no read,
\* send, scan or append fails for ever, every regular file the scan lists
\* (here: each of the arriving names, once a readable file) eventually has
\* a record in the store, unless a file that can never be read is in the
\* directory or the store is full when the file is to be recorded.
C2_EventualRecord ==
    \A n \in Arriving :
        (dirEntries[n] = "file")
            ~> \/ HasRecord(n)
               \/ AppendBlocked(n)
               \/ \E m \in Arriving : dirEntries[m] = "undecodable"

\* C11 as stated: the count process_new_files returns is the number of
\* records appended to the store during the call, whatever the appends
\* did: at every step of a batch the count and the store grow together.
C11_CountIsRecordsAppended ==
    [][InBatch =>
          processed_count' - processed_count
              = Len(store'.lines) - Len(store.lines)]_vars

\* C11 amended: the count process_new_files returns is the number of files
\* whose workflow finished in the call, each with one append attempt; the
\* attempt adds one record or, when it fails, adds none and logs one
\* error, and the file is counted all the same.
C11_CountIsFilesFinished ==
    /\ [](InBatch => processed_count = idx - 1)
    /\ [](pc = "done" => returned = processed_count)
    /\ [][InBatch =>
            /\ processed_count' - processed_count
                   = IF pc = "mark" THEN 1 ELSE 0
            /\ Len(store'.lines) - Len(store.lines)
                   \in IF pc = "mark" THEN {0, 1} ELSE {0}
            /\ (pc = "mark" /\ store' = store)
                   => log_errors'["mark_file_as_processed"] = 1]_vars

\* a batch of two files has returned 2 although the store holds fewer than
\* two records: an append failed and its file was counted
C11_Witness ==
    /\ pc = "done"
    /\ returned = 2
    /\ Len(store.lines) < 2

\* the list is in ascending order of basename, no basename twice
Ascending(files) ==
    \A i, j \in DOMAIN files :
        i < j => StrLess(basename(files[i]), basename(files[j]))

\* C12: whatever the order in which the listing enumerates the entries,
\* get_new_files returns the new files in ascending order of basename,
\* none twice; the results a scan can have on a directory and a store do
\* not depend on the order of the listing.
C12_DeterministicOrder ==
    /\ pc = "read" => Ascending(new_files)
    /\ pc = "idle" =>
           LET entries == Entries(dirEntries, store)
               first == CHOOSE l \in Listings(entries) : TRUE
           IN  \A l \in Listings(entries) :
                   ScanListing(entries, store, l)
                       = ScanListing(entries, store, first)

\* a scan has returned three files, in the order a, ab, a|b
C12_Witness ==
    /\ pc = "read"
    /\ new_files = <<join(directory_path, NameA),
                     join(directory_path, NameAB),
                     join(directory_path, NamePipe)>>

\* C13: one file is in hand at every moment of a batch, the one at the
\* position of the for loop; the loop stays on it while it is read and
\* sent, whatever the retries, leaves it only after the append attempt for
\* it was made, and then takes the next position: the files before the
\* position have all been counted, and records are appended in scan order.
C13_OneFileInFlight ==
    /\ [](IF InBatch
          THEN idx \in DOMAIN new_files /\ processed_count = idx - 1
          ELSE idx = 0)
    /\ [][InBatch =>
            /\ pc \in {"read", "send"} =>
                  /\ idx' = idx
                  /\ new_files' = new_files
                  /\ store' = store
                  /\ pc' \in {"read", "send", "mark"}
            /\ pc = "mark" =>
                  /\ \/ \E st \in {"success", "error"} : Appended(st)
                     \/ AppendFailed
                  /\ idx < Len(new_files) =>
                        /\ idx' = idx + 1
                        /\ new_files' = new_files
                        /\ pc' = "read"
                  /\ idx = Len(new_files) => pc' = "done"]_vars

\* the second file of a batch is in a retry of its send; the first has
\* been through its workflow
C13_Witness ==
    /\ pc = "send"
    /\ idx = 2
    /\ retry_count.send = 1
    /\ processed_count = 1

\* the set a load of the whole store returns
LoadedSet == ParseLines(store.lines, Len(store.lines))

\* C14: the set of filenames obtainable from the store contains every
\* filename whose workflow the driver has completed.  Stated here for the
\* workflows whose append wrote its record (the claim covers the failed
\* appends too): the filename is in the set obtained from the store as it
\* is after the append.
C14_ProcessedSetInvariant ==
    [][(pc = "mark" /\ store' # store)
          => basename(file_path)
                 \in ParseLines(store'.lines, Len(store'.lines))]_vars

\* C16: after mark_file_as_processed has written the record of a filename,
\* a load of the store returns a set that contains the filename, whatever
\* other records the store holds before or after it.
C16_StoreRoundTrip ==
    \A n \in Names : HasRecord(n) => n \in LoadedSet

\* C15: every step of the driver leaves the lines the store held where
\* they were: the store after the step begins with the store before it, a
\* store that exists goes on existing, and the step that scans (and loads)
\* adds no line and changes the store only by creating it, empty, when it
\* was absent.
C15_AppendOnly ==
    [][/\ Len(store'.lines) >= Len(store.lines)
       /\ SubSeq(store'.lines, 1, Len(store.lines)) = store.lines
       /\ store.exists => store'.exists
       /\ pc = "idle" =>
             /\ store'.lines = store.lines
             /\ store'.exists # store.exists => store'.lines = <<>>]_vars

\* the record of a second file was appended after the record of the first
C15_Witness ==
    store.lines = <<Entry(NameA, Timestamp, "success"),
                    Entry(NamePipe, Timestamp, "error")>>

\* the paths of a set of names of the watched directory
PathsOf(names) == {join(directory_path, n) : n \in names}

C18_EnumerationFailureReported ==
    ListingFailed =>
        /\ log_errors["get_new_files"] = 1
        /\ pc = "done"
        /\ returned = 0
        /\ new_files = <<>>

\* C19 as stated: the load creates a missing store empty and returns the
\* empty set; when reading the store fails it returns the empty set with
\* one error report.
C19_ReadErrorGivesEmptySet ==
    /\ loadStatus = "created" =>
           /\ processed_files = {}
           /\ store = [exists |-> TRUE, lines |-> <<>>]
    /\ loadStatus = "error" =>
           /\ processed_files = {}
           /\ log_errors["_load_processed_files"] = 1

\* C19, amended: the load never raises and never changes a record; a missing
\* store is created empty and gives the empty set (when it cannot be
\* created: the empty set and one error report); when reading fails the
\* load reports one error and returns the names of the lines it had read
\* before the failure, which is the empty set only when the failure comes
\* before the first record.
C19_LoadNeverRaises ==
    [][ /\ store'.lines = store.lines
        /\ loadStatus' = "created" =>
               /\ ~store.exists /\ store'.exists
               /\ processed_files' = {}
               /\ log_errors'["_load_processed_files"] = 0
        /\ loadStatus' = "error" =>
               /\ store' = store
               /\ log_errors'["_load_processed_files"] = 1
               /\ \E n \in 0..Len(store.lines) :
                      processed_files' = ParseLines(store.lines, n)
        /\ loadStatus' = "ok" =>
               /\ store' = store /\ store.exists
               /\ log_errors'["_load_processed_files"] = 0
               /\ processed_files' = ParseLines(store.lines, Len(store.lines))
        /\ loadStatus' # "none" => pc' \in {"read", "done"}
      ]_vars

\* a read that failed after the first of two records went into the set
C19_Witness ==
    /\ loadStatus = "error"
    /\ log_errors["_load_processed_files"] = 1
    /\ processed_files # {}
    /\ processed_files # LoadedSet
    /\ pc = "read"

\* C20: mark_file_as_processed never raises: either it appends exactly one
\* record `filename|timestamp|status` at the end of the store and
\* returns True, with no error report, or (an I/O failure) it returns
\* False, reports exactly one error and leaves the store as it was.
C20_AppendOutcomeIsValue ==
    [][pc = "mark" =>
        /\ pc' \in {"read", "done"}
        /\ \/ /\ mark_returned' = "True"
              /\ \E status \in {"success", "error"} :
                    store'.lines =
                        store.lines \o
                        << basename(new_files[idx])
                           \o <<"|", Timestamp, "|", status>> >>
              /\ store'.exists
              /\ log_errors'["mark_file_as_processed"] = 0
           \/ /\ mark_returned' = "False"
              /\ store' = store
              /\ log_errors'["mark_file_as_processed"] = 1
      ]_vars

\* a batch of two files: the append for the first failed, the append for
\* the second wrote its record
C20_Witness ==
    /\ pc = "done"
    /\ returned = 2
    /\ mark_returned = "True"
    /\ Len(store.lines) = 1
    /\ store.lines[1] = NamePipe \o <<"|", Timestamp, "|", "success">>

\* C21: a workflow makes one append attempt.  When the attempt fails (the
\* store keeps its lines and mark_file_as_processed has returned False) the
\* driver counts the file and takes the next file of the scan result, or
\* returns when the file was the last; the file does not come again in the
\* rest of the batch, so it is not read, sent or appended a second time.
C21_FailedAppendNotRetried ==
    [][(pc = "mark" /\ mark_returned' = "False") =>
        /\ store' = store
        /\ processed_count' = processed_count + 1
        /\ \A j \in (idx + 1)..Len(new_files) : new_files[j] # new_files[idx]
        /\ IF idx < Len(new_files)
           THEN pc' = "read" /\ idx' = idx + 1 /\ new_files' = new_files
                /\ content' = NoContent /\ send_calls' = 0
           ELSE pc' = "done" /\ returned' = processed_count + 1
      ]_vars

\* the append for the first file of a batch failed and the driver is on
\* the second file
C21_Witness ==
    /\ pc = "read"
    /\ idx = 2
    /\ mark_returned = "False"
    /\ processed_count = 1
    /\ ~HasRecord(basename(new_files[1]))
    /\ log_errors["mark_file_as_processed"] = 1

\* C22: an exception raised in a file's workflow is caught by the workflow
\* itself: the driver reports one error, sleeps the retry delay once and
\* reads the same file again.  While a file is read and sent the position
\* of the for loop, the scan result, the count and the store do not change
\* and process_new_files does not return; the file is counted, once, by
\* the step that makes its append attempt.
C22_ExceptionRetriesSameFile ==
    [][/\ pc \in {"read", "send"} =>
            /\ pc' \in {"read", "send", "mark"}
            /\ idx' = idx /\ new_files' = new_files
            /\ processed_count' = processed_count
            /\ returned' = returned
            /\ store' = store
       /\ (pc = "send" /\ pc' = "read") =>
            /\ log_errors'["_process_single_file_with_retry"]
                   = log_errors["_process_single_file_with_retry"] + 1
            /\ slept'["_process_single_file_with_retry"]
                   = Append(slept["_process_single_file_with_retry"],
                            RETRY_DELAY_SECONDS)
            /\ content' = NoContent
       /\ pc = "mark" =>
            /\ processed_count' = processed_count + 1
            /\ processed_count = idx - 1
      ]_vars

\* a file whose first workflow attempt ended in an exception has been read
\* and sent again and is about to be recorded
C22_Witness ==
    /\ pc = "mark"
    /\ retry_count.file = 1
    /\ log_errors["_process_single_file_with_retry"] = 1
    /\ slept["_process_single_file_with_retry"] = <<RETRY_DELAY_SECONDS>>
    /\ processed_count = idx - 1

\* C23: no step of a file's workflow is skipped.  send_hl7v2_message is
\* called only with the content a read of the file has returned, never
\* while the file is still being read; the append attempt is made only
\* after a send of that content that ended with HTTP 200 or 201; and a
\* line is added to the store only by that attempt, for the file in hand.
C23_NoStateSkipped ==
    /\ [](pc = "read" => send_calls = 0 /\ content = NoContent)
    /\ [](pc = "send" => send_calls >= 1 /\ content = Content(file_path))
    /\ [](pc = "mark" =>
            /\ content = Content(file_path)
            /\ send_calls >= 1
            /\ result.response_data.http_status_code \in {200, 201})
    /\ [][/\ pc' = "send" => pc \in {"read", "send"}
          /\ pc' = "mark" => pc = "send"
          /\ store'.lines # store.lines =>
                /\ pc = "mark"
                /\ \E status \in {"success", "error"} :
                      store'.lines = Append(store.lines,
                                            basename(file_path)
                                            \o <<"|", Timestamp, "|">>
                                            \o <<status>>)
         ]_vars

\* a file is about to be recorded after a send that was not delivered and
\* a send that was
C23_Witness ==
    /\ pc = "mark"
    /\ content = Content(file_path)
    /\ send_calls = 2
    /\ retry_count.send = 1
    /\ result.success
    /\ result.response_data.http_status_code = 201

\* the line has the form filename|timestamp|status: three fields or more
WellFormed(line) ==
    Cardinality({k \in DOMAIN line : line[k] = "|"}) >= 2

\* s is the line without the blanks at its two ends
StrippedIs(s, line) ==
    /\ \E i \in 1..(Len(line) + 1), j \in 0..Len(line) :
          /\ s = SubSeq(line, i, j)
          /\ \A k \in 1..(i - 1) : line[k] = " "
          /\ \A k \in (j + 1)..Len(line) : line[k] = " "
    /\ s # <<>> => s[1] # " " /\ s[Len(s)] # " "

\* f is the text of s before its first separator, all of s when it has none
FirstFieldIs(f, s) ==
    /\ Len(f) <= Len(s)
    /\ f = SubSeq(s, 1, Len(f))
    /\ \A k \in DOMAIN f : f[k] # "|"
    /\ Len(f) < Len(s) => s[Len(f) + 1] = "|"

\* f is the first field of the line, which is not blank
FieldOfLine(f, line) ==
    \E i \in 1..(Len(line) + 1), j \in 0..Len(line) :
        LET s == SubSeq(line, i, j)
        IN  StrippedIs(s, line) /\ s # <<>> /\ FirstFieldIs(f, s)

\* the line is not blank
HasText(line) == \E k \in DOMAIN line : line[k] # " "

\* C24 as stated: a load that read the whole store returns exactly the
\* first fields of its well-formed lines; a malformed line gives no name.
C24_MalformedLineIgnored ==
    loadStatus = "ok" =>
        /\ \A f \in processed_files :
              \E k \in DOMAIN store.lines :
                  WellFormed(store.lines[k]) /\ FieldOfLine(f, store.lines[k])
        /\ \A k \in DOMAIN store.lines :
              WellFormed(store.lines[k]) =>
                  \E f \in processed_files : FieldOfLine(f, store.lines[k])

\* C24, amended: a load that read the whole store returns exactly the
\* first fields of its lines that are not blank, each line taken without
\* the blanks at its ends: the text before the first separator, and the
\* whole line when it holds no separator.  Only blank lines give no name.
C24_FirstFieldOfEveryLine ==
    loadStatus = "ok" =>
        /\ \A f \in processed_files :
              \E k \in DOMAIN store.lines : FieldOfLine(f, store.lines[k])
        /\ \A k \in DOMAIN store.lines :
              HasText(store.lines[k]) =>
                  \E f \in processed_files : FieldOfLine(f, store.lines[k])

\* a store with a line that holds no separator has been loaded, and the
\* line is in the set as a filename
C24_Witness ==
    /\ loadStatus = "ok"
    /\ \E k \in DOMAIN store.lines :
          /\ ~WellFormed(store.lines[k])
          /\ store.lines[k] = NameB
    /\ NameB \in processed_files
    /\ Len(store.lines) = 2

\* every file of the directory has its record in the store, as it has when
\* a batch has returned whose appends all wrote their line
AllRecorded ==
    \A n \in Arriving : dirEntries[n] # "none" => HasRecord(n)

\* C25: process_new_files invoked again on an unchanged directory returns
\* 0, sends nothing and appends nothing.  Stated here for the invocations
\* that find a record in the store for every file of the directory and
\* whose load of the store meets no read error (the claim covers every
\* batch that has returned).
C25_RescanReturnsZero ==
    [][(pc = "idle" /\ pc' # "idle" /\ AllRecorded /\ loadStatus' # "error")
          => /\ pc' = "done"
             /\ returned' = 0
             /\ store'.lines = store.lines]_vars

\* C26: no failure in a file's workflow ends the scheduler or makes
\* process_new_files raise.  The scheduler is never ended by an exception;
\* a batch ends only where the scan found nothing or the last file of the
\* scan result had its append attempt, and then process_new_files has
\* returned a count; after the return the scheduler starts its next cycle,
\* and a cycle can always start process_new_files.
C26_NoSelfTermination ==
    /\ [](pc \in {"idle", "read", "send", "mark", "done"})
    /\ [](pc = "done" => returned >= 0 /\ ENABLED run_scheduler)
    /\ [](pc = "idle" => ENABLED process_new_files)
    /\ [][/\ pc = "done" => pc' = "idle"
          /\ pc' = "done" =>
                \/ pc = "idle" /\ returned' = 0
                \/ pc = "mark" /\ idx = Len(new_files)
                               /\ returned' = Len(new_files)
         ]_vars

\* a batch of two files has returned although both appends failed
C26_Witness ==
    /\ pc = "done"
    /\ returned = 2
    /\ mark_returned = "False"
    /\ store = [exists |-> TRUE, lines |-> <<>>]
    /\ log_errors["mark_file_as_processed"] = 1

\* the exchange the POST of the running iteration meets, and what
\* client.post makes of it
Answer == post(exchanges[attempt + 1])

\* the POST succeeded and its body is not empty
NonEmptyAnswer == Answer.success /\ Answer.response_data # "empty"

\* the sleeps of k failed attempts of one call: 1s, 2s, 3s, ...
Backoff(k) == [i \in 1..k |-> i]

\* the call of send_hl7v2_message ends in this step with a pair that
\* _send_message_with_retry takes or refuses
CallReturns ==
    /\ attempt' = 0
    /\ slept'["send_hl7v2_message"] = <<>>
    /\ \/ pc' = "mark"
       \/ /\ pc' = "send"
          /\ send_calls' = send_calls + 1
          /\ retry_count'.send = retry_count.send + 1
    /\ log_errors'["_process_single_file_with_retry"]
           = log_errors["_process_single_file_with_retry"]

\* the iteration failed and is not the last: the loop sleeps and goes round
FailedAttemptSleeps ==
    /\ attempt < max_retries
    /\ attempt' = attempt + 1
    /\ slept'["send_hl7v2_message"] =
           Append(slept["send_hl7v2_message"], attempt + 1)
    /\ pc' = "send" /\ send_calls' = send_calls /\ result' = result

\* the last iteration failed: no sleep, and the pair (False, response) with
\* the status code of this last POST and final_attempt
FinalAttemptReturns ==
    /\ attempt = max_retries
    /\ CallReturns
    /\ ~result'.success
    /\ result'.response_data.final_attempt
    /\ result'.response_data.http_status_code = Answer.status_code

AppendJustFailed(n) ==
    /\ InBatch
    /\ idx >= 2
    /\ mark_returned = "False"
    /\ basename(new_files[idx - 1]) = n

\* a scan has just returned the file n
Rescanned(n) ==
    /\ pc = "read" /\ idx = 1 /\ retry_count = NoRetries
    /\ join(directory_path, n) \in Range(new_files)

\* C28: a delivered file whose append failed, and which has no record, is
\* returned again by a later scan (and so delivered again): the failed
\* append never loses the file.
\* Stated for the batches that come to their end: no file of the directory
\* fails every read.
C28_FailedAppendStaysCandidate ==
    \A n \in Arriving :
        (AppendJustFailed(n) /\ ~HasRecord(n))
            ~> \/ Rescanned(n)
               \/ \E m \in Arriving : dirEntries[m] = "undecodable"

\* some retry loop goes to sleep in this step
Sleeps == \E f \in Functions : Len(slept'[f]) > Len(slept[f])

\* C29: the store file is open only inside a load or an append.  No file
\* object on it is open between two steps of the driver, and so none at a
\* sleep of a retry loop or between two cycles of the scheduler; a step
\* that sleeps does not touch the store.
C29_NoHandleAcrossSleep ==
    /\ [](open_handles = 0)
    /\ [][Sleeps => /\ open_handles' = 0
                    /\ store' = store
                    /\ pc' \in {"read", "send"}]_vars

\* the reader sleeps on the second file of a batch after the load of the
\* scan, which met a read error, and the append for the first file
C29_Witness ==
    /\ pc = "read"
    /\ idx = 2
    /\ slept["read_file_content"] = <<RETRY_DELAY_SECONDS>>
    /\ loadStatus = "error"
    /\ Len(store.lines) = 1
    /\ open_handles = 0

\* the lines of the store that are records written for the filename n
RecordLines(n) == {i \in DOMAIN store.lines : store.lines[i] \in RecordsOf(n)}

\* the drivers that have sent the file named n
SentBy(n) == {d \in Drivers : n \in Range(drivers[d].sent)}

\* C30: two drivers on one directory and store can deliver the same file
\* twice and leave two records for it (C30_Witness is such a state).  The
\* scan is the only guard: a driver sends a file once, and only a file
\* whose name was not in the set its own scan loaded, so the store holds at
\* most one record of a file per driver that sent it, and a second record
\* whenever the second driver scanned before the first record was written.
C30_DuplicateOnlyByRace ==
    /\ \A d \in Drivers :
          /\ \A i, j \in DOMAIN drivers[d].sent :
                drivers[d].sent[i] = drivers[d].sent[j] => i = j
          /\ \A n \in Range(drivers[d].sent) :
                /\ n \notin drivers[d].processed_files
                /\ n \in {basename(f) : f \in Range(drivers[d].new_files)}
    /\ \A n \in Arriving :
          Cardinality(RecordLines(n)) <= Cardinality(SentBy(n))

\* both drivers scanned while the store held no record, both delivered the
\* file a and both appended: the store ends with two records for a
C30_Witness ==
    /\ \A d \in Drivers :
          /\ drivers[d].pc = "done"
          /\ drivers[d].processed_files = {}
          /\ drivers[d].new_files = <<join(directory_path, NameA)>>
          /\ drivers[d].sent = <<NameA>>
    /\ Len(store.lines) = 2
    /\ RecordLines(NameA) = {1, 2}

\* _process_single_file_with_retry: the arguments of the call
\* self._send_message_with_retry(content, filename), which hands them on to
\* every call of send_hl7v2_message
SendArguments == [content |-> content, filename |-> basename(new_files[idx])]

\* C31: every POST for a file carries the content that the last successful
\* read of this file returned, under this file's basename.  While the send
\* is running both stay as they are; content read for one file is never in
\* hand while another file is read or sent, also after the workflow was
\* entered again.
C31_ContentIntegrity ==
    /\ [](pc = "send" =>
            /\ isfile(dirEntries, new_files[idx])
            /\ SendArguments = [content |-> Content(new_files[idx]),
                                filename |-> basename(new_files[idx])]
            /\ \A i \in DOMAIN new_files :
                  content = Content(new_files[i]) => i = idx)
    /\ [](pc = "read" => content = NoContent)
    /\ [][pc = "send" /\ pc' = "send" => SendArguments' = SendArguments]_vars

\* the second file of a batch is being sent after an unexpected exception
\* made its workflow start again: its own content is in hand
C31_Witness ==
    /\ pc = "send"
    /\ Len(new_files) = 2
    /\ idx = 2
    /\ retry_count.file = 1
    /\ send_calls = 1
    /\ content = Content(new_files[2])
    /\ content # Content(new_files[1])

\* process_new_files takes the branch `if not new_files: return 0` in this
\* step
EmptyBatch == pc = "idle" /\ pc' = "done"

\* C32: a batch whose scan yields no new file returns 0, reads no file and
\* sends nothing, and leaves the store as it was: the store is not created
\* and its records are the same.
C32_EmptyBatchIsNoOp ==
    [][EmptyBatch =>
          /\ returned' = 0
          /\ processed_count' = 0
          /\ new_files' = <<>>
          /\ content' = NoContent
          /\ send_calls' = 0
          /\ verdicts' = verdicts
          /\ retry_count' = NoRetries
          /\ \A f \in PerFile : log_errors'[f] = 0 /\ slept'[f] = <<>>
          /\ store'.lines = store.lines
          /\ store'.exists = store.exists]_vars

\* every file of the directory has its record: the batch loaded the store
\* and returned 0, and the record is still there
C32_Witness ==
    /\ pc = "done"
    /\ returned = 0
    /\ loadStatus = "ok"
    /\ dirEntries[NameA] = "file"
    /\ store.lines = <<Entry(NameA, Timestamp, "success")>>

\* the calls of process_files_job, and of time.sleep, the scheduler made
JobCalls ==
    Cardinality({i \in DOMAIN app.events :
                    app.events[i].call = "process_files_job"})

SleepCalls ==
    Cardinality({i \in DOMAIN app.events : app.events[i].call = "time.sleep"})

\* the last call the scheduler made, when it made one
LastEvent == app.events[Len(app.events)]

\* C33 as stated: a KeyboardInterrupt ends the loop after as many job calls
\* as cycles were started.
C33_StoppedAfterAsManyJobsAsCycles ==
    app.pc = "stopped" => JobCalls = app.cycle

\* C33: run_scheduler calls the job and sleeps the interval in strict
\* alternation, one call at a time, each cycle after the job and the sleep
\* of the cycle before have returned; an exception that leaves the job is
\* reported and the loop goes on to its sleep; a KeyboardInterrupt ends the
\* loop without propagating and without an error report, after as many job
\* calls as cycles were started, or one fewer when it arrives at the head
\* of a cycle, before the job is called.
C33_SchedulerCycleProtocol ==
    /\ \A i \in DOMAIN app.events :
          /\ app.events[i].call =
                (IF i % 2 = 1 THEN "process_files_job" ELSE "time.sleep")
          /\ app.events[i].call = "time.sleep" =>
                app.events[i].returned = SCHEDULE_INTERVAL
          /\ i < Len(app.events) =>
                /\ app.events[i].raised # "KeyboardInterrupt"
                /\ app.events[i].call = "time.sleep" =>
                      app.events[i].raised = "none"
    /\ app.pc = "loop" => JobCalls = app.cycle /\ SleepCalls = app.cycle
    /\ app.pc = "job" =>
          JobCalls = app.cycle - 1 /\ SleepCalls = app.cycle - 1
    /\ app.pc = "sleep" =>
          JobCalls = app.cycle /\ SleepCalls = app.cycle - 1
    /\ (/\ app.events # <<>>
        /\ LastEvent.call = "process_files_job"
        /\ LastEvent.raised = "Exception") =>
          /\ app.pc = "sleep"
          /\ app.errors.run_scheduler >= 1
    /\ (app.events # <<>> /\ LastEvent.raised = "KeyboardInterrupt") =>
          app.pc = "stopped"
    /\ app.pc = "stopped" =>
          /\ app.exit_status = -1
          /\ app.errors.main = 0
          /\ JobCalls \in {app.cycle - 1, app.cycle}
          /\ JobCalls = app.cycle - 1 <=>
                \/ app.events = <<>>
                \/ LastEvent.raised # "KeyboardInterrupt"

\* three cycles: the job of the first ended in an exception, and the loop
\* went on; a KeyboardInterrupt at the head of the third cycle stopped the
\* scheduler after two job calls
C33_Witness ==
    /\ app.pc = "stopped"
    /\ app.cycle = 3
    /\ JobCalls = 2
    /\ SleepCalls = 2
    /\ app.events[1].raised = "Exception"
    /\ app.errors.run_scheduler = 1
    /\ app.exit_status = -1

\* C34: every call of process_files_job returns the count that its call of
\* process_new_files returned, with no error report; when process_new_files
\* raised an exception it reports one error and returns 0, and nothing is
\* raised to the scheduler (the error report itself going through).
C34_JobAbsorbsErrors ==
    \A i \in DOMAIN app.events :
        LET e == app.events[i]
        IN  e.call = "process_files_job" =>
              /\ e.batch_raised = "none" =>
                    /\ e.returned = e.batch
                    /\ e.raised = "none"
                    /\ e.errors = 0
              /\ (e.batch_raised = "Exception" /\ ~e.handler_failed) =>
                    /\ e.returned = 0
                    /\ e.raised = "none"
                    /\ e.errors = 1
              /\ e.raised # "none" =>
                    \/ e.batch_raised = "KeyboardInterrupt"
                    \/ e.handler_failed

\* the job of the first cycle returned the 2 of its batch; in the second
\* cycle process_new_files raised, the job reported it and returned 0, and
\* the scheduler went on to sleep
C34_Witness ==
    /\ app.pc = "sleep"
    /\ Len(app.events) = 3
    /\ app.events[1].batch = 2
    /\ app.events[1].returned = 2
    /\ app.events[3].batch_raised = "Exception"
    /\ app.events[3].returned = 0
    /\ app.events[3].errors = 1
    /\ app.errors.run_scheduler = 0

\* C35: the scheduler runs only after config.validate() returned True.
\* When it returned False, main reports one error and returns: no cycle is
\* started and no job is called.  When validation raised, or an exception
\* left the scheduler, main reports the error and exits with status 1; in
\* no other case does main exit through sys.exit.
C35_ValidationGate ==
    /\ (\/ app.pc \in {"loop", "job", "sleep", "stopped"}
        \/ app.cycle > 0
        \/ app.events # <<>>) => app.validate = "True"
    /\ app.validate = "False" =>
          /\ app.pc = "returned"
          /\ app.errors = [main |-> 1, run_scheduler |-> 0]
          /\ app.exit_status = -1
    /\ app.validate = "raise" =>
          /\ app.pc = "exited"
          /\ app.errors = [main |-> 1, run_scheduler |-> 0]
          /\ app.exit_status = 1
    /\ (/\ app.events # <<>>
        /\ LastEvent.call = "time.sleep"
        /\ LastEvent.raised = "Exception") =>
          /\ app.pc = "exited"
          /\ app.errors.main = 1
          /\ app.exit_status = 1
    /\ app.pc = "exited" <=> app.exit_status = 1
    /\ app.exit_status = 1 =>
          \/ app.validate = "raise"
          \/ app.events # <<>> /\ LastEvent.raised = "Exception"

\* validation returned False: main has reported the error and returned,
\* and no cycle was started
C35_Witness ==
    /\ app.validate = "False"
    /\ app.pc = "returned"
    /\ app.errors.main = 1
    /\ app.cycle = 0
    /\ app.events = <<>>
    /\ app.exit_status = -1

\* the triple post returns for a failure with the status code c
Failure(c) == [success |-> FALSE, response_data |-> NoData, status_code |-> c]

\* C36: every call of AidboxClient.post returns a triple.  Its success is
\* True only for a response of status 200 or 201 whose body was decoded,
\* and the triple then carries the decoded body and the status; for a
\* response of any other status it is (False, None, status); for a timeout,
\* a connection error, another request error, a body that is not JSON or
\* any other exception it is (False, None, None).
C36_PostFailuresAreValues ==
    \A i \in DOMAIN posts :
        LET e == posts[i].exchange
            o == posts[i].outcome
        IN  /\ o.success \in BOOLEAN
            /\ o.success =>
                  /\ e.status_code \in {200, 201}
                  /\ e.body \in Bodies \ {"badjson"}
                  /\ o.response_data = e.body
                  /\ o.status_code = e.status_code
            /\ (e.status_code \notin {200, 201, None}) =>
                  o = Failure(e.status_code)
            /\ (\/ e.status_code = None
                \/ e.status_code \in {200, 201} /\ e.body = "badjson") =>
                  o = Failure(None)
            /\ (e.status_code \in {200, 201} /\ e.body # "badjson") =>
                  o.success

\* a call answered 201 with bytes that are not JSON, then a call that met
\* a timeout: both returned (False, None, None)
C36_Witness ==
    /\ Len(posts) = 2
    /\ posts[1].exchange = [status_code |-> 201, body |-> "badjson"]
    /\ posts[1].outcome = Failure(None)
    /\ posts[2].exchange = [status_code |-> None, body |-> "Timeout"]
    /\ posts[2].outcome = Failure(None)

\* the POSTs the running call of send_hl7v2_message has made were answered
\* with a status other than 200 and 201, or not at all
NoneAccepted ==
    \A j \in 1..attempt : exchanges[j].status_code \notin {200, 201}

\* C37: once a POST for the file has come back with HTTP status 200 or 201,
\* whatever its body, no further POST is made for the file: every step of
\* the send loop, which makes a POST, is taken with no accepted POST behind
\* it.
C37_NoRePostAfterAcceptance ==
    [][pc = "send" => NoneAccepted]_vars

\* C38: within one batch at most one record is appended for each scanned
\* file and at most one send is delivered for it, also when an exception is
\* raised after the send has returned or after the record was appended and
\* the workflow of the file starts again.  (The batch starts on a store
\* without records, so every record of the store is a record of the batch.)
C38_OneRecordPerFileUnderExceptions ==
    /\ \A n \in Arriving : Cardinality(RecordLines(n)) <= 1
    /\ verdicts <= 1

\* C39: process_new_files that scanned a non-empty list returns only from
\* the append attempt of the last file of the list, with the length of the
\* list; the files are taken one by one in the order of the list, the file
\* in hand is left only through its append attempt, which follows a
\* delivered send of the content a read of it returned, and the list is
\* fixed by the scan: a file that appears later is not in it and has no
\* record when the batch returns.
C39_NoScannedFileSkipped ==
    /\ [](InBatch =>
            /\ idx \in 1..Len(new_files)
            /\ processed_count = idx - 1)
    /\ [][(InBatch /\ pc' = "done") =>
             /\ pc = "mark"
             /\ idx = Len(new_files)
             /\ returned' = Len(new_files)]_vars
    /\ [][(InBatch /\ pc' # "done") =>
             /\ new_files' = new_files
             /\ idx' # idx =>
                   /\ pc = "mark"
                   /\ pc' = "read"
                   /\ idx' = idx + 1]_vars
    /\ [][(pc # "mark" /\ pc' = "mark") =>
             /\ pc = "send"
             /\ content = Content(new_files[idx])
             /\ result'.response_data.http_status_code \in {200, 201}]_vars
    /\ [][(InBatch /\ store'.lines # store.lines) =>
             /\ pc = "mark"
             /\ \E status \in {"success", "error"} :
                   store'.lines =
                       Append(store.lines,
                              Entry(basename(new_files[idx]), Timestamp,
                                    status))]_vars

\* the batch scanned the file a alone; a|b appeared while a was being
\* sent; the batch has returned 1 with the record of a, and a|b is in the
\* directory without a record
C39_Witness ==
    /\ pc = "done"
    /\ returned = 1
    /\ dirEntries[NameA] = "file"
    /\ dirEntries[NamePipe] = "file"
    /\ Len(store.lines) = 1
    /\ RecordLines(NameA) = {1}

\* C40: under every interleaving of the load of one driver with the append
\* of another, a record once written stays in the store: no step takes a
\* line away, also not the step that creates the store.
C40_NoRecordLostUnderConcurrency ==
    [][\A n \in Arriving :
          \A i \in RecordLines(n) :
              /\ i \in DOMAIN store'.lines
              /\ store'.lines[i] = store.lines[i]]_vars

====
